---------------------------- MODULE Spec2Model ----------------------------
(***************************************************************************)
(* SQuAREModelClient (src/square_model_client/model_client.py): the task   *)
(* poller, the asynchronous facade operations, the payload codec and the   *)
(* deployment guard, together with the part of the model-api server the    *)
(* guard observes (the deployed models and the running task queues).       *)
(*                                                                         *)
(* One step of a caller is one HTTP exchange (request and response) with   *)
(* the local computation around it; callers interleave between exchanges.  *)
(* The transport delivers a status code and a JSON body (spec.md, 1 and 6);*)
(* an accepted asynchronous request (status 200) carries a task_id in its  *)
(* body, a task_result body may or may not carry a `result` member.        *)
(***************************************************************************)
EXTENDS Integers, Sequences, FiniteSets, TLC

\* ------------------------------------------------------------ bounds
NumCallers == 2        \* caller threads that may share the client object
MaxTasks == 1          \* task descriptors the server reports at one time
MaxAttemptsArg == 3    \* largest max_attempts passed to _wait_for_task directly
ConcAttempts == 2      \* self.max_attempts of the client in ConcSpec
MaxScan == 2           \* task descriptors in a body get_models_in_deployment scans
MaxLen == 2            \* elements of a sequence in a response to decode

\* ------------------------------------------------------------ program constants
DefaultMaxAttempts == 50     \* self.max_attempts, line 43
DefaultPollInterval == 2     \* self.poll_interval, line 44
DeployPollInterval == 20     \* deploy: poll_interval=20, line 252
OK == 200                    \* response.status_code == 200

NoneArg == -1                \* Python None for an optional integer argument

Callers == 1..NumCallers
StatusCodes == {200, 201, 302, 404}
\* the statuses the server answers GET /models/task with
TaskQueryStatuses == {200, 302, 404}
TaskIds == {"t1", "t2"}
NoTask == "none"
Names == {"bert"}
Types == {"transformer", "adapter"}
DEPLOY_TASK == "tasks.tasks.deploy_task"
OTHER_TASK == "tasks.tasks.remove_task"

supported_prediction_methods ==
    {"embedding", "sequence-classification", "token-classification",
     "generation", "question-answering"}
\* the prediction_method arguments tried
Methods == {"question-answering", "bogus", "Embedding"}

\* ------------------------------------------------------------ JSON values
\* A node of a model output: a string (base64 text of the serialised array
\* number a; a = 0 is text that is no serialised array), a number, an
\* ordered sequence of nodes, or, after decoding, a numeric array.
Str(a) == [t |-> "str", a |-> a, items |-> <<>>]
Num(n) == [t |-> "num", a |-> n, items |-> <<>>]
Lst(s) == [t |-> "list", a |-> 0, items |-> s]
\* the array that np.load yields for serialised array number a
Arr(a) == [t |-> "ndarray", a |-> a, items |-> <<>>]
\* the array that np.array builds from the plain JSON value v
ArrOf(v) == [t |-> "ndarray", a |-> 0, items |-> <<v>>]
\* a failed conversion inside the codec
Bad(e) == [t |-> e, a |-> 0, items |-> <<>>]
Errors == {"ValueError", "DecodeError"}

IsBad(v) == v.t \in Errors

\* A task result: the flag and the mapping from output name to node.
Payload(enc, out) == [model_output_is_encoded |-> enc, model_outputs |-> out]
OneOutput(v) == [k \in {"logits"} |-> v]
NoVal == Payload(FALSE, [k \in {"none"} |-> Bad("none")])

\* the `result` members the task_result endpoint may deliver
Results ==
    { Payload(TRUE, OneOutput(Str(1))),
      Payload(TRUE, OneOutput(Lst(<<Str(1), Lst(<<Str(2)>>)>>))),
      Payload(TRUE, OneOutput(Lst(<<Str(1), Num(2)>>))),
      Payload(FALSE, OneOutput(Lst(<<Num(1), Num(2)>>))) }

\* ------------------------------------------------------------ payload codec
\* _decode: base64 text -> bytes -> np.load; text that is no serialised
\* array makes np.load raise.
_decodeToList(arr_string_b64) ==
    IF arr_string_b64.a = 0 THEN Bad("DecodeError") ELSE Lst(<<Arr(arr_string_b64.a)>>)

_decode(arr_string_b64) ==
    IF arr_string_b64.a = 0 THEN Bad("DecodeError") ELSE Arr(arr_string_b64.a)

UnexpectedLeafKept(val) == val

\* lines 74-78: a value that is neither a str nor an Iterable
UnexpectedLeaf(val) == Bad("ValueError")

\* the first failed element of a decoded sequence, if any
FirstBad(s) ==
    IF \E i \in 1..Len(s) : IsBad(s[i])
    THEN s[CHOOSE i \in 1..Len(s) :
               IsBad(s[i]) /\ \A j \in 1..(i - 1) : ~IsBad(s[j])]
    ELSE Bad("none")

RECURSIVE dec_or_iterate(_)
dec_or_iterate(val) ==
    IF val.t = "str" THEN _decode(val)
    ELSE IF val.t = "list"
    THEN LET out == [i \in 1..Len(val.items) |-> dec_or_iterate(val.items[i])]
         IN  IF IsBad(FirstBad(out)) THEN FirstBad(out) ELSE Lst(out)
    ELSE UnexpectedLeaf(val)

\* np.array(arr) on a plain JSON value
np_array(arr) == ArrOf(arr)

\* the error decode_model_api_response raises on this response, or "none"
DecodeError(model_api_response) ==
    LET outs == model_api_response.model_outputs
        bad == {key \in DOMAIN outs : IsBad(dec_or_iterate(outs[key]))}
    IN  IF model_api_response.model_output_is_encoded /\ bad # {}
        THEN dec_or_iterate(outs[CHOOSE key \in bad : TRUE]).t
        ELSE "none"

\* the response decode_model_api_response returns when it raises nothing
decode_model_api_response(model_api_response) ==
    IF model_api_response.model_output_is_encoded
    THEN [model_api_response EXCEPT !.model_outputs =
              [key \in DOMAIN @ |-> dec_or_iterate(@[key])]]
    ELSE [model_api_response EXCEPT !.model_outputs =
              [key \in DOMAIN @ |-> np_array(@[key])]]

KeepModelOutputs(model_api_response) == model_api_response

\* lines 81 and 86 assign the new mapping to model_api_response["model_outputs"]:
\* the object the caller passed, as it is once the call has returned
AssignModelOutputs(model_api_response) == decode_model_api_response(model_api_response)

\* ------------------------------------------------------------ values of a call
\* what a call hands back: a value, the raw response object, or an exception
Returned(v) == [kind |-> "return", val |-> v, status |-> 0, err |-> "none"]
ReturnedNone == [kind |-> "none", val |-> NoVal, status |-> 0, err |-> "none"]
RawResponse(s) == [kind |-> "response", val |-> NoVal, status |-> s, err |-> "none"]
Raised(e) == [kind |-> "raise", val |-> NoVal, status |-> 0, err |-> e]
Pending == [kind |-> "pending", val |-> NoVal, status |-> 0, err |-> "none"]
\* response.json() of a synchronous operation
ReturnedJson(s) == [kind |-> "json", val |-> NoVal, status |-> s, err |-> "none"]
\* the dict get_models_in_deployment returns
ReturnedDict == [kind |-> "dict", val |-> NoVal, status |-> 0, err |-> "none"]

\* a task_result response: status and JSON body
Resp(s, has, v) == [status_code |-> s, has_result |-> has, result |-> v]
NoResp == Resp(0, FALSE, NoVal)
PollResponses ==
    {Resp(s, FALSE, NoVal) : s \in StatusCodes}
        \cup {Resp(OK, TRUE, v) : v \in Results}

\* ------------------------------------------------------------ server data
Record(n, t) == [model_name |-> n, model_type |-> t]
Pairs == {Record(n, t) : n \in Names, t \in Types}
\* a task descriptor: name and the members of args[0]
Task(nm, n, t) == [name |-> nm, MODEL_NAME |-> n, MODEL_TYPE |-> t]
Tasks == {Task(DEPLOY_TASK, n, t) : n \in Names, t \in Types}
             \cup {Task(OTHER_TASK, n, "transformer") : n \in Names}

SeqsUpTo(S, n) == UNION {[1..k -> S] : k \in 0..n}
\* the body of /models/task: per worker, per queue, the task descriptors
WorkerKeys == <<"worker-1", "worker-2">>
QueueKeys == <<"active">>
WIdx == 1..Len(WorkerKeys)
QIdx == 1..Len(QueueKeys)

RECURSIVE Concat(_)
Concat(ss) == IF Len(ss) = 0 THEN <<>> ELSE Head(ss) \o Concat(Tail(ss))
\* the descriptors in the order the three nested loops visit them
Visit(running_tasks) ==
    Concat([w \in WIdx |-> Concat([q \in QIdx |-> running_tasks[w][q]])])
NumTasks(running_tasks) == Len(Visit(running_tasks))
RunningStructures ==
    {r \in [WIdx -> [QIdx -> SeqsUpTo(Tasks, MaxTasks)]] : NumTasks(r) <= MaxTasks}

\* the responses decode_model_api_response is called with: leaves, sequences
\* of up to MaxLen leaves, and sequences of one or two of these, under one or
\* two output names
Leaves == {Str(1), Str(2), Num(1)}
Flat == Leaves \cup {Lst(s) : s \in SeqsUpTo(Leaves, MaxLen)}
Nested ==
    Flat \cup {Lst(<<v>>) : v \in Flat} \cup {Lst(<<v, w>>) : v \in Flat, w \in Flat}
\* text that is no serialised array, bare and inside a sequence
Garbled == {Str(0), Lst(<<Str(1), Str(0)>>)}
TwoOutputs(v, w) == [k \in {"logits", "embeddings"} |-> IF k = "logits" THEN v ELSE w]
IsLeaf(v) == v.t \in {"str", "num"}
\* a value np.array takes whatever the numpy release: a leaf, or sequences
\* of one length at each level (on a ragged sequence np.array raises or
\* builds an object array, depending on the release)
Rectangular(v) ==
    \/ IsLeaf(v)
    \/ /\ v.t = "list"
       /\ \/ \A i \in DOMAIN v.items : IsLeaf(v.items[i])
          \/ \A i \in DOMAIN v.items :
                /\ v.items[i].t = "list"
                /\ Len(v.items[i].items) = Len(v.items[1].items)
                /\ \A j \in DOMAIN v.items[i].items : IsLeaf(v.items[i].items[j])
CodecInputs ==
    {Payload(TRUE, OneOutput(v)) : v \in Nested \cup Garbled}
        \cup {Payload(TRUE, TwoOutputs(v, w)) : v \in Flat, w \in Flat}
        \cup {Payload(FALSE, OneOutput(v)) : v \in {x \in Nested : Rectangular(x)}}
        \cup {Payload(FALSE, TwoOutputs(v, w)) : v \in Leaves, w \in Leaves}

\* ------------------------------------------------------------ arguments
\* default_skill_args: the base_model member (absent, empty or a name) and
\* whether an "adapter" member is present
SkillArgs ==
    {[has_base_model |-> FALSE, base_model |-> "", has_adapter |-> a] : a \in BOOLEAN}
        \cup {[has_base_model |-> TRUE, base_model |-> n, has_adapter |-> a] :
                   n \in Names \cup {""}, a \in BOOLEAN}
NoSkill == [has_base_model |-> FALSE, base_model |-> "", has_adapter |-> FALSE]
NoAttrs == [identifier |-> "", model_name |-> "", model_type |-> ""]
Attrs(n, t) == [identifier |-> n, model_name |-> n, model_type |-> t]

NoArgs ==
    [prediction_method |-> "", model_identifier |-> "", model_attributes |-> NoAttrs,
     default_skill_args |-> NoSkill, task_id |-> NoTask,
     max_attempts |-> NoneArg, poll_interval |-> NoneArg,
     model_api_response |-> NoVal]

\* ------------------------------------------------------------ state
VARIABLES
    active,         \* the callers that use the client
    max_attempts,   \* self.max_attempts
    poll_interval,  \* self.poll_interval
    pc,             \* per caller: where its call stands
    op,             \* per caller: the public operation it called
    args,           \* per caller: the arguments of that call
    wait,           \* per caller: the locals of _wait_for_task
    ret,            \* per caller: what the call handed back
    hist,           \* per caller: what the call did on the network
    deployed,       \* server: the deployed model records
    running         \* server: the running task descriptors

vars == <<active, max_attempts, poll_interval, pc, op, args, wait, ret, hist,
          deployed, running>>
client == <<active, max_attempts, poll_interval>>
server == <<deployed, running>>

NoWait ==
    [task_id |-> NoTask, max_attempts |-> 0, poll_interval |-> 0, attempts |-> 0,
     result |-> NoResp]

\* a dict of model names to model types, as get_models_in_deployment builds it
EmptyDict == [k \in {} |-> ""]
\* models_in_deployment[model_name] = model_type
Put(d, k, v) == [x \in DOMAIN d \cup {k} |-> IF x = k THEN v ELSE d[x]]
\* d.get(k, default)
Get(d, k, default) == IF k \in DOMAIN d THEN d[k] ELSE default

\* Per call: credential fetches, HTTP requests, task_result GETs, seconds
\* slept, the status and task_id of the accepting response, the attempt of
\* the first 200 answer and its body, the number of 200 answers, the bodies
\* sent to /models/deploy, the value the poller handed to the operation,
\* what the guard's two queries showed, the status of the answer to
\* /models/task and the mapping built from it, whether the server held the
\* wanted pair at every step of the guard so far, and the caller's response
\* object as decode_model_api_response left it.
NoHist ==
    [cred |-> 0, req |-> 0, gets |-> 0, slept |-> 0,
     post_status |-> 0, accepted |-> NoTask, polled |-> {},
     first_ok |-> 0, first_body |-> NoResp, n_ok |-> 0,
     sent |-> <<>>, polled_value |-> Pending,
     dep_match |-> FALSE, dep_other |-> FALSE, asked_tasks |-> FALSE,
     task_match |-> FALSE, tasks_status |-> 0, mapping |-> EmptyDict,
     held |-> FALSE, arg_after |-> NoVal]

InitCalls ==
    /\ pc = [c \in Callers |-> "idle"]
    /\ op = [c \in Callers |-> "none"]
    /\ args = [c \in Callers |-> NoArgs]
    /\ wait = [c \in Callers |-> NoWait]
    /\ ret = [c \in Callers |-> Pending]
    /\ hist = [c \in Callers |-> NoHist]

\* the server may hold any records and descriptors when the client starts
InitServer ==
    /\ deployed \in SUBSET Pairs
    /\ running \in RunningStructures

\* __init__ (lines 41-44), one caller
Init ==
    /\ active = {1}
    /\ max_attempts = DefaultMaxAttempts
    /\ poll_interval = DefaultPollInterval
    /\ InitCalls
    /\ InitServer

\* ------------------------------------------------------------ task poller
WaitArgsDefaultsOnly(task_id, ma, pi) ==
    [task_id |-> task_id, max_attempts |-> max_attempts,
     poll_interval |-> poll_interval, attempts |-> 0, result |-> NoResp]

\* lines 111-116: the arguments, None replaced by the client's defaults
WaitArgs(task_id, ma, pi) ==
    [task_id |-> task_id,
     max_attempts |-> IF ma = NoneArg THEN max_attempts ELSE ma,
     poll_interval |-> IF pi = NoneArg THEN poll_interval ELSE pi,
     attempts |-> 0,
     result |-> NoResp]

LoopContinuesOffByOne(w) == w.attempts <= w.max_attempts

\* line 118: while attempts < max_attempts
LoopContinues(w) == w.attempts < w.max_attempts

CompletedAny2xx(response) ==
    200 <= response.status_code /\ response.status_code < 300

\* line 127: if response.status_code == 200
Completed(response) == response.status_code = OK

NextWaitNoBreak(w, response) ==
    [locals |-> [w EXCEPT !.attempts = @ + 1,
                          !.result = IF Completed(response) THEN response ELSE @],
     brk |-> FALSE]

\* lines 119-129: one iteration on the response of its GET; brk: the break
NextWait(w, response) ==
    [locals |-> [w EXCEPT !.attempts = @ + 1,
                          !.result = IF Completed(response) THEN response ELSE @],
     brk |-> Completed(response)]

\* line 131: return result["result"]
WaitReturn(result) ==
    IF result = NoResp THEN Raised("TypeError")
    ELSE IF ~result.has_result THEN Raised("KeyError")
    ELSE Returned(result.result)

\* ------------------------------------------------------------ facade
UnsupportedUnchecked(prediction_method) == FALSE

\* line 162: prediction_method not in supported_prediction_methods
Unsupported(prediction_method) ==
    prediction_method \notin supported_prediction_methods

AcceptedAny2xx(status_code) == 200 <= status_code /\ status_code < 300

\* lines 182, 251, 271, 321, 338: if response.status_code == 200
Accepted(status_code) == status_code = OK

\* the task_id member of the body of an answer to an asynchronous request
BodyTaskId(status_code, tid) == IF status_code = OK THEN tid ELSE NoTask

DunderCallUndecoded(prediction) ==
    IF prediction.kind = "response" THEN Raised("TypeError") ELSE prediction

\* lines 139-141: __call__ decodes what predict handed back; a raw response
\* object cannot be subscripted
DunderCall(prediction) ==
    IF prediction.kind = "return"
    THEN IF DecodeError(prediction.val) # "none"
         THEN Raised(DecodeError(prediction.val))
         ELSE Returned(decode_model_api_response(prediction.val))
    ELSE IF prediction.kind = "response" THEN Raised("TypeError")
    ELSE prediction

\* lines 395-399: the guard drops what deploy hands back
GuardReturn(deploy_result) ==
    IF deploy_result.kind = "raise" THEN deploy_result ELSE ReturnedNone

\* what operation f hands to its caller when its request or its poll ended in o
OpResult(f, o) ==
    IF f = "__call__" THEN DunderCall(o)
    ELSE IF f = "deploy_model_if_not_exists" THEN GuardReturn(o)
    ELSE o

\* a token fetched once and kept for the later requests of the call
RequestCachedToken(h) == [h EXCEPT !.cred = IF @ = 0 THEN 1 ELSE @, !.req = @ + 1]

\* one HTTP request: its headers carry the token of a fresh call of
\* client_credentials() (lines 122, 175, 196, 207, 218, 246, 266, 295, 317,
\* 334, 345)
Request(h) == [h EXCEPT !.cred = @ + 1, !.req = @ + 1]

Done(f, h, o) ==
    [pc |-> "done", wait |-> NoWait, ret |-> OpResult(f, o), hist |-> h]

\* _wait_for_task ended in o (a value or an exception)
WaitDone(f, h, o) == Done(f, [h EXCEPT !.polled_value = o], o)

\* entering _wait_for_task from operation f
EnterWait(f, h, w) ==
    IF LoopContinues(w)
    THEN [pc |-> "poll", wait |-> w, ret |-> Pending, hist |-> h]
    ELSE WaitDone(f, h, WaitReturn(w.result))

\* lines 180-185 (and 249-254, 269-274, 320-324, 337-341): the answer to
\* the request of asynchronous operation f, with status s and task id tid
AfterRequest(f, h0, s, tid, pi) ==
    LET h == [Request(h0) EXCEPT !.post_status = s,
                        !.accepted = BodyTaskId(s, tid)]
    IN  IF ~Accepted(s) THEN Done(f, h, RawResponse(s))
        ELSE IF BodyTaskId(s, tid) = NoTask THEN Done(f, h, Raised("KeyError"))
        ELSE EnterWait(f, h, WaitArgs(BodyTaskId(s, tid), NoneArg, pi))

Set(c, f, a, n) ==
    /\ op' = [op EXCEPT ![c] = f]
    /\ args' = [args EXCEPT ![c] = a]
    /\ pc' = [pc EXCEPT ![c] = n.pc]
    /\ wait' = [wait EXCEPT ![c] = n.wait]
    /\ ret' = [ret EXCEPT ![c] = n.ret]
    /\ hist' = [hist EXCEPT ![c] = n.hist]

Free(c) == c \in active /\ pc[c] = "idle"

\* the caller takes what the call handed back and is free for its next call
Return(c) ==
    /\ c \in active
    /\ pc[c] = "done"
    /\ Set(c, "none", NoArgs,
           [pc |-> "idle", wait |-> NoWait, ret |-> Pending, hist |-> NoHist])
    /\ UNCHANGED <<client, server>>

\* predict (lines 143-185), called directly (f = "predict") or by __call__
Predict(c, f) ==
    /\ Free(c)
    /\ \E m \in Methods :
         LET a == [NoArgs EXCEPT !.prediction_method = m]
         IN  \/ /\ Unsupported(m)
                /\ Set(c, f, a, Done(f, NoHist, Raised("ValueError")))
             \/ /\ ~Unsupported(m)
                /\ \E s \in StatusCodes, tid \in TaskIds :
                       Set(c, f, a, AfterRequest(f, NoHist, s, tid, NoneArg))
    /\ UNCHANGED <<client, server>>

CallPredict(c) == Predict(c, "predict")

\* __call__ (lines 133-141)
CallDunder(c) == Predict(c, "__call__")

\* one iteration of the loop of _wait_for_task (lines 118-131): the GET, its
\* answer, the break or the sleep, and the return once the loop is left
Poll(c) ==
    /\ c \in active
    /\ pc[c] = "poll"
    /\ \E response \in PollResponses :
         LET n == NextWait(wait[c], response)
             w == n.locals
             first == response.status_code = OK /\ hist[c].n_ok = 0
             h == [Request(hist[c]) EXCEPT
                      !.gets = @ + 1,
                      !.polled = @ \cup {wait[c].task_id},
                      !.n_ok = IF response.status_code = OK THEN @ + 1 ELSE @,
                      !.first_ok = IF first THEN w.attempts ELSE @,
                      !.first_body = IF first THEN response ELSE @,
                      !.slept = IF n.brk THEN @ ELSE @ + w.poll_interval]
         IN  IF ~n.brk /\ LoopContinues(w)
             THEN Set(c, op[c], args[c],
                      [pc |-> "poll", wait |-> w, ret |-> Pending, hist |-> h])
             ELSE Set(c, op[c], args[c], WaitDone(op[c], h, WaitReturn(w.result)))
    /\ UNCHANGED <<client, server>>

\* _wait_for_task called with its own arguments (lines 92-131)
CallWaitForTask(c) ==
    /\ Free(c)
    /\ \E tid \in TaskIds, ma \in {NoneArg} \cup (0..MaxAttemptsArg),
          pi \in {NoneArg, 0} :
         Set(c, "_wait_for_task",
             [NoArgs EXCEPT !.task_id = tid, !.max_attempts = ma, !.poll_interval = pi],
             EnterWait("_wait_for_task", NoHist, WaitArgs(tid, ma, pi)))
    /\ UNCHANGED <<client, server>>

\* the server takes a deployment on: a descriptor joins one of its queues
Enqueue(task) ==
    /\ NumTasks(running) < MaxTasks
    /\ \E w \in WIdx, q \in QIdx :
         running' = [running EXCEPT ![w][q] = Append(@, task)]
    /\ UNCHANGED deployed

\* the POST of deploy (lines 243-254) and the server's part in it
DeployRequest(c, f, a, h0, model_attributes) ==
    \E s \in StatusCodes, tid \in TaskIds :
        /\ Set(c, f, a,
               AfterRequest(f, [h0 EXCEPT !.sent = Append(@, model_attributes)],
                            s, tid, DeployPollInterval))
        /\ IF s = OK
           THEN Enqueue(Task(DEPLOY_TASK, model_attributes.model_name,
                             model_attributes.model_type))
           ELSE UNCHANGED server

\* deploy (lines 223-254)
CallDeploy(c) ==
    /\ Free(c)
    /\ \E r \in Pairs :
         LET model_attributes == Attrs(r.model_name, r.model_type)
         IN  DeployRequest(c, "deploy",
                           [NoArgs EXCEPT !.model_attributes = model_attributes],
                           NoHist, model_attributes)
    /\ UNCHANGED client

\* remove (lines 256-274); the server destroys the records of an accepted
\* removal
CallRemove(c) ==
    /\ Free(c)
    /\ \E model_identifier \in Names, s \in StatusCodes, tid \in TaskIds :
         /\ Set(c, "remove", [NoArgs EXCEPT !.model_identifier = model_identifier],
                AfterRequest("remove", NoHist, s, tid, NoneArg))
         /\ deployed' = IF s = OK
                         THEN {r \in deployed : r.model_name # model_identifier}
                         ELSE deployed
    /\ UNCHANGED <<client, running>>

\* add_worker (lines 301-324)
CallAddWorker(c) ==
    /\ Free(c)
    /\ \E model_identifier \in Names, s \in StatusCodes, tid \in TaskIds :
         Set(c, "add_worker", [NoArgs EXCEPT !.model_identifier = model_identifier],
             AfterRequest("add_worker", NoHist, s, tid, NoneArg))
    /\ UNCHANGED <<client, server>>

\* remove_worker (lines 326-341)
CallRemoveWorker(c) ==
    /\ Free(c)
    /\ \E model_identifier \in Names, s \in StatusCodes, tid \in TaskIds :
         Set(c, "remove_worker", [NoArgs EXCEPT !.model_identifier = model_identifier],
             AfterRequest("remove_worker", NoHist, s, tid, NoneArg))
    /\ UNCHANGED <<client, server>>

\* stats, deployed_models, deployed_model_workers and update (lines 187-221
\* and 276-299): one request, whose body is returned whatever the status
SyncOps == {"stats", "deployed_models", "deployed_model_workers", "update"}
CallSync(c) ==
    /\ Free(c)
    /\ \E f \in SyncOps, s \in StatusCodes :
         Set(c, f, NoArgs, Done(f, Request(NoHist), ReturnedJson(s)))
    /\ UNCHANGED <<client, server>>

\* ------------------------------------------------------------ deployment guard
\* the server has the pair (n, t) deployed, or a deployment of it in flight
Holds(dep, run, n, t) ==
    \/ Record(n, t) \in dep
    \/ \E i \in DOMAIN Visit(run) :
          /\ Visit(run)[i].name = DEPLOY_TASK
          /\ Visit(run)[i].MODEL_NAME = n
          /\ Visit(run)[i].MODEL_TYPE = t

\* lines 356-362: the loops over the descriptors, in the order visited
RECURSIVE ScanTasks(_, _)
ScanTasks(tasks, models_in_deployment) ==
    IF tasks = <<>> THEN models_in_deployment
    ELSE LET task == Head(tasks)
         IN  ScanTasks(Tail(tasks),
                       IF task.name = DEPLOY_TASK
                       THEN Put(models_in_deployment, task.MODEL_NAME, task.MODEL_TYPE)
                       ELSE models_in_deployment)

\* lines 354-364: the mapping built from the body of /models/task
get_models_in_deployment(running_tasks) == ScanTasks(Visit(running_tasks), EmptyDict)

RaisesForServerError(status_code) == 500 <= status_code /\ status_code < 600

\* line 352: response.raise_for_status() raises for 4xx and 5xx
RaisesForStatus(status_code) == 400 <= status_code /\ status_code < 600

\* get_models_in_deployment called directly (lines 343-364)
CallGetModelsInDeployment(c) ==
    /\ Free(c)
    /\ \E s \in TaskQueryStatuses :
         LET f == "get_models_in_deployment"
             h == [Request(NoHist) EXCEPT !.asked_tasks = TRUE, !.tasks_status = s]
         IN  IF RaisesForStatus(s)
             THEN Set(c, f, NoArgs, Done(f, h, Raised("HTTPError")))
             ELSE Set(c, f, NoArgs,
                      Done(f, [h EXCEPT !.mapping = get_models_in_deployment(running)],
                           ReturnedDict))
    /\ UNCHANGED <<client, server>>

NothingToDeployIfAbsent(default_skill_args) == ~default_skill_args.has_base_model

\* lines 368-369: model_name = default_skill_args.get("base_model"); not model_name
NothingToDeploy(default_skill_args) ==
    ~default_skill_args.has_base_model \/ default_skill_args.base_model = ""

\* line 372
ModelType(default_skill_args) ==
    IF default_skill_args.has_adapter THEN "adapter" ELSE "transformer"

AlreadyDeployedAll(deployed_models, model_name, model_type) ==
    /\ deployed_models # {}
    /\ \A model \in deployed_models :
          model.model_name = model_name /\ model.model_type = model_type

\* line 379: any(model['model_name'] == model_name and model['model_type'] == model_type ...)
AlreadyDeployed(deployed_models, model_name, model_type) ==
    \E model \in deployed_models :
        model.model_name = model_name /\ model.model_type = model_type

InDeploymentByKey(currently_deploying_models, model_name, model_type) ==
    model_type \in DOMAIN currently_deploying_models

\* line 386: currently_deploying_models.get(model_name, "") == model_type
InDeployment(currently_deploying_models, model_name, model_type) ==
    Get(currently_deploying_models, model_name, "") = model_type

GuardAttrsDefaultType(model_name, model_type) == Attrs(model_name, "transformer")

\* lines 395-399: the attributes the guard deploys with
GuardAttrs(model_name, model_type) == Attrs(model_name, model_type)

\* deploy_model_if_not_exists up to its first query (lines 366-383)
CallDeployModelIfNotExists(c) ==
    /\ Free(c)
    /\ \E default_skill_args \in SkillArgs :
         LET f == "deploy_model_if_not_exists"
             a == [NoArgs EXCEPT !.default_skill_args = default_skill_args]
             model_name == default_skill_args.base_model
             model_type == ModelType(default_skill_args)
             deployed_models == deployed
             h == [Request(NoHist) EXCEPT
                      !.held = Holds(deployed, running, model_name, model_type),
                      !.dep_match = Record(model_name, model_type) \in deployed_models,
                      !.dep_other = deployed_models \ {Record(model_name, model_type)} # {}]
         IN  \/ /\ NothingToDeploy(default_skill_args)
                /\ Set(c, f, a, Done(f, NoHist, ReturnedNone))
             \/ /\ ~NothingToDeploy(default_skill_args)
                /\ IF AlreadyDeployed(deployed_models, model_name, model_type)
                   THEN Set(c, f, a, Done(f, h, ReturnedNone))
                   ELSE Set(c, f, a, [pc |-> "guard_tasks", wait |-> NoWait,
                                      ret |-> Pending, hist |-> h])
    /\ UNCHANGED <<client, server>>

\* the guard's second query (lines 385-390, with lines 343-364)
GuardTasks(c) ==
    /\ c \in active
    /\ pc[c] = "guard_tasks"
    /\ \E s \in TaskQueryStatuses :
         LET f == op[c]
             model_name == args[c].default_skill_args.base_model
             model_type == ModelType(args[c].default_skill_args)
             currently_deploying_models == get_models_in_deployment(running)
             h == [Request(hist[c]) EXCEPT
                      !.asked_tasks = TRUE, !.tasks_status = s,
                      !.task_match =
                          /\ ~RaisesForStatus(s)
                          /\ model_name \in DOMAIN currently_deploying_models
                          /\ currently_deploying_models[model_name] = model_type]
         IN  IF RaisesForStatus(s)
             THEN Set(c, f, args[c], Done(f, h, Raised("HTTPError")))
             ELSE IF InDeployment(currently_deploying_models, model_name, model_type)
             THEN Set(c, f, args[c], Done(f, h, ReturnedNone))
             ELSE Set(c, f, args[c], [pc |-> "guard_deploy", wait |-> NoWait,
                                      ret |-> Pending, hist |-> h])
    /\ UNCHANGED <<client, server>>

\* the guard's deploy (lines 392-399)
GuardDeploy(c) ==
    /\ c \in active
    /\ pc[c] = "guard_deploy"
    /\ DeployRequest(c, op[c], args[c], hist[c],
                     GuardAttrs(args[c].default_skill_args.base_model,
                                ModelType(args[c].default_skill_args)))
    /\ UNCHANGED client

\* ------------------------------------------------------------ server
\* whether the server still holds the pair a guard call in progress asks for
StillHeld(c, dep, run) ==
    IF op[c] = "deploy_model_if_not_exists" /\ pc[c] \in {"guard_tasks", "guard_deploy"}
    THEN [hist[c] EXCEPT !.held =
             @ /\ Holds(dep, run, args[c].default_skill_args.base_model,
                        ModelType(args[c].default_skill_args))]
    ELSE hist[c]

\* a running task ends; an ended deployment leaves a deployed record
ServerFinish ==
    /\ \E w \in WIdx, q \in QIdx :
         /\ running[w][q] # <<>>
         /\ LET task == Head(running[w][q])
            IN  /\ running' = [running EXCEPT ![w][q] = Tail(@)]
                /\ deployed' = IF task.name = DEPLOY_TASK
                                THEN deployed \cup {Record(task.MODEL_NAME, task.MODEL_TYPE)}
                                ELSE deployed
    /\ hist' = [c \in Callers |-> StillHeld(c, deployed', running')]
    /\ UNCHANGED <<client, pc, op, args, wait, ret>>

\* ------------------------------------------------------------ specifications
Next ==
    \/ \E c \in Callers :
          \/ CallPredict(c)
          \/ CallDunder(c)
          \/ CallDeploy(c)
          \/ CallRemove(c)
          \/ CallAddWorker(c)
          \/ CallRemoveWorker(c)
          \/ CallWaitForTask(c)
          \/ CallSync(c)
          \/ CallGetModelsInDeployment(c)
          \/ CallDeployModelIfNotExists(c)
          \/ GuardTasks(c)
          \/ GuardDeploy(c)
          \/ Poll(c)
          \/ Return(c)
    \/ ServerFinish

Spec == Init /\ [][Next]_vars

\* Several callers run the guard at once on a client whose max_attempts
\* attribute has been set to ConcAttempts.
ConcInit ==
    /\ active = Callers
    /\ max_attempts = ConcAttempts
    /\ poll_interval = DefaultPollInterval
    /\ InitCalls
    /\ InitServer

ConcNext ==
    \/ \E c \in Callers :
          \/ CallDeployModelIfNotExists(c)
          \/ GuardTasks(c)
          \/ GuardDeploy(c)
          \/ Poll(c)
          \/ Return(c)
    \/ ServerFinish

ConcSpec == ConcInit /\ [][ConcNext]_vars

\* The poller on its own: one caller calls _wait_for_task with its own
\* arguments against a server that holds nothing. A caller inside the loop
\* runs on: nothing but the loop's own GET and sleep stands between two
\* iterations, hence the weak fairness of Poll.
WaitInit ==
    /\ active = {1}
    /\ max_attempts = DefaultMaxAttempts
    /\ poll_interval = DefaultPollInterval
    /\ InitCalls
    /\ deployed = {}
    /\ running = [w \in WIdx |-> [q \in QIdx |-> <<>>]]

WaitNext == \E c \in Callers : CallWaitForTask(c) \/ Poll(c) \/ Return(c)

WaitSpec == WaitInit /\ [][WaitNext]_vars /\ \A c \in Callers : WF_vars(Poll(c))

\* decode_model_api_response called directly (lines 46-90)
CallDecode(c) ==
    /\ Free(c)
    /\ \E model_api_response \in CodecInputs :
         LET f == "decode_model_api_response"
             a == [NoArgs EXCEPT !.model_api_response = model_api_response]
             err == DecodeError(model_api_response)
         IN  IF err # "none"
             THEN Set(c, f, a, Done(f, [NoHist EXCEPT !.arg_after = model_api_response],
                                    Raised(err)))
             ELSE Set(c, f, a,
                      Done(f, [NoHist EXCEPT
                                  !.arg_after = AssignModelOutputs(model_api_response)],
                           Returned(decode_model_api_response(model_api_response))))
    /\ UNCHANGED <<client, server>>

CodecInit ==
    /\ active = {1}
    /\ max_attempts = DefaultMaxAttempts
    /\ poll_interval = DefaultPollInterval
    /\ InitCalls
    /\ deployed = {}
    /\ running = [w \in WIdx |-> [q \in QIdx |-> <<>>]]

CodecNext == \E c \in Callers : CallDecode(c) \/ Return(c)

CodecSpec == CodecInit /\ [][CodecNext]_vars

\* get_models_in_deployment on bodies of up to MaxScan task descriptors
ScanStructures ==
    {r \in [WIdx -> [QIdx -> SeqsUpTo(Tasks, MaxScan)]] : NumTasks(r) <= MaxScan}

ScanInit ==
    /\ active = {1}
    /\ max_attempts = DefaultMaxAttempts
    /\ poll_interval = DefaultPollInterval
    /\ InitCalls
    /\ deployed = {}
    /\ running \in ScanStructures

ScanNext == \E c \in Callers : CallGetModelsInDeployment(c) \/ Return(c)

ScanSpec == ScanInit /\ [][ScanNext]_vars

\* ------------------------------------------------------------ claims
GUARD == "deploy_model_if_not_exists"
AsyncOps == {"predict", "deploy", "remove", "add_worker", "remove_worker"}
\* the attempt budget of caller c's call
Budget(c) ==
    IF op[c] = "_wait_for_task" /\ args[c].max_attempts # NoneArg
    THEN args[c].max_attempts
    ELSE max_attempts
\* _wait_for_task has ended in caller c's call
PollEnded(c) == pc[c] = "done" /\ hist[c].polled_value # Pending

\* C1: callers that run deploy_model_if_not_exists at the same time with the
\* same spec issue at most one deploy request between them.
C1_AtMostOneDeployRequest ==
    \A c1 \in Callers, c2 \in Callers :
        ( /\ c1 # c2
          /\ op[c1] = GUARD /\ op[c2] = GUARD
          /\ pc[c1] = "poll" /\ pc[c2] = "poll"
          /\ args[c1].default_skill_args = args[c2].default_skill_args )
        => Len(hist[c1].sent) + Len(hist[c2].sent) <= 1

\* C2: once a task_result GET is answered 200, on attempt k, the poll loop
\* is over after exactly k GETs, no further GET follows, and what the poller
\* hands back is decided by that k-th response: its `result` member (a
\* KeyError when the body has none).
C2_FirstOkDecides ==
    \A c \in Callers :
        hist[c].first_ok > 0 =>
            /\ pc[c] = "done"
            /\ hist[c].gets = hist[c].first_ok
            /\ hist[c].n_ok = 1
            /\ hist[c].first_ok <= Budget(c)
            /\ hist[c].polled_value =
                   IF hist[c].first_body.has_result
                   THEN Returned(hist[c].first_body.result)
                   ELSE Raised("KeyError")
            /\ op[c] \in AsyncOps \cup {"_wait_for_task"} => ret[c] = hist[c].polled_value

C2_Witness ==
    \E c \in Callers :
        /\ op[c] = "_wait_for_task"
        /\ hist[c].first_ok = 3
        /\ hist[c].gets = 3
        /\ ret[c].kind = "return"
        /\ ret[c].val = hist[c].first_body.result

\* C3: a poll loop never issues more than max_attempts task_result GETs,
\* issues exactly max_attempts of them when no answer is 200, and ends.
C3_Safe ==
    \A c \in Callers :
        /\ hist[c].gets <= Budget(c)
        /\ pc[c] = "poll" =>
              /\ wait[c].attempts = hist[c].gets
              /\ wait[c].max_attempts = Budget(c)
              /\ hist[c].gets < Budget(c)
        /\ (PollEnded(c) /\ hist[c].n_ok = 0) => hist[c].gets = Budget(c)

C3_BoundedAndTerminates ==
    /\ []C3_Safe
    /\ \A c \in Callers : (pc[c] = "poll") ~> (pc[c] = "done")

C3_Witness ==
    \E c \in Callers :
        /\ op[c] = "_wait_for_task"
        /\ args[c].max_attempts = 3
        /\ PollEnded(c)
        /\ hist[c].n_ok = 0
        /\ hist[c].gets = 3

\* C4: a poll loop that used up its budget without a 200 answer ends in a
\* typed timeout error.
C4_TimeoutIsTyped ==
    \A c \in Callers :
        (PollEnded(c) /\ hist[c].n_ok = 0 /\ hist[c].gets > 0)
            => hist[c].polled_value = Raised("TimeoutError")

\* C5 as claimed: the loop stops only on a 200 answer whose body has a
\* `result` member, or with the budget used up.
C5_StopsOnResultOrBudget ==
    \A c \in Callers :
        PollEnded(c) =>
            \/ hist[c].first_ok > 0 /\ hist[c].first_body.has_result
            \/ hist[c].gets = Budget(c)

\* C5 as amended: the loop stops exactly when a GET is answered 200, whatever
\* its body (without a `result` member the call raises KeyError), or when the
\* budget is used up.
C5_StopsOnOkOrBudget ==
    \A c \in Callers :
        /\ PollEnded(c) => (hist[c].n_ok > 0 \/ hist[c].gets = Budget(c))
        /\ pc[c] = "poll" => (hist[c].n_ok = 0 /\ hist[c].gets < Budget(c))
        /\ (PollEnded(c) /\ hist[c].n_ok > 0 /\ ~hist[c].first_body.has_result)
              => hist[c].polled_value = Raised("KeyError")

C5_Witness ==
    \E c \in Callers :
        /\ PollEnded(c)
        /\ hist[c].first_ok = 2
        /\ ~hist[c].first_body.has_result
        /\ hist[c].gets < Budget(c)
        /\ hist[c].polled_value = Raised("KeyError")

\* C6: an asynchronous operation enters the poller exactly when its request
\* is answered 200, and then polls the task_id of that answer; on any other
\* status it hands back the raw response and issues no task_result GET.
C6_PollIffAccepted ==
    \A c \in Callers :
        (op[c] \in AsyncOps /\ hist[c].req > 0) =>
            /\ hist[c].post_status = 200 =>
                  /\ pc[c] = "poll" \/ PollEnded(c)
                  /\ hist[c].accepted \in TaskIds
                  /\ hist[c].polled \subseteq {hist[c].accepted}
                  /\ pc[c] = "poll" => wait[c].task_id = hist[c].accepted
                  /\ PollEnded(c) => hist[c].gets > 0
            /\ hist[c].post_status # 200 =>
                  /\ pc[c] = "done"
                  /\ ret[c] = RawResponse(hist[c].post_status)
                  /\ hist[c].gets = 0
                  /\ hist[c].polled = {}
                  /\ hist[c].polled_value = Pending

C6_Witness ==
    \E c \in Callers :
        /\ op[c] = "remove_worker"
        /\ hist[c].post_status = 200
        /\ hist[c].accepted = "t2"
        /\ hist[c].polled = {"t2"}
        /\ hist[c].gets = 2
        /\ pc[c] = "done"

\* C7: predict with a prediction_method outside the five supported ones
\* raises ValueError and touches the network not at all.
C7_BogusMethodNoNetwork ==
    \A c \in Callers :
        ( /\ op[c] \in {"predict", "__call__"}
          /\ args[c].prediction_method \notin
                 {"embedding", "sequence-classification", "token-classification",
                  "generation", "question-answering"} )
        => /\ pc[c] = "done"
           /\ ret[c] = Raised("ValueError")
           /\ hist[c].cred = 0
           /\ hist[c].req = 0
           /\ hist[c].gets = 0

C7_Witness ==
    \E c \in Callers :
        /\ op[c] = "predict"
        /\ args[c].prediction_method = "bogus"
        /\ ret[c] = Raised("ValueError")
        /\ hist[c].req = 0

\* C8 as claimed: what predict hands back after an accepted request and a
\* completed poll is the decoded task result.
C8_PredictReturnsDecoded ==
    \A c \in Callers :
        (op[c] = "predict" /\ PollEnded(c) /\ hist[c].polled_value.kind = "return")
            => ret[c] = Returned(decode_model_api_response(hist[c].polled_value.val))

\* C8 as amended: __call__ hands back the decoded task result (when the
\* codec raises nothing); predict, called directly, hands back the polled
\* task result undecoded.
C8_CallReturnsDecoded ==
    \A c \in Callers :
        (PollEnded(c) /\ hist[c].polled_value.kind = "return") =>
            LET v == hist[c].polled_value.val
            IN  /\ (op[c] = "__call__" /\ DecodeError(v) = "none") =>
                      /\ ret[c] = Returned(decode_model_api_response(v))
                      /\ ret[c].val # v
                      /\ \A k \in DOMAIN ret[c].val.model_outputs :
                            ret[c].val.model_outputs[k].t \in {"ndarray", "list"}
                /\ op[c] = "predict" => ret[c] = Returned(v)

C8_Witness ==
    \E c \in Callers :
        /\ op[c] = "__call__"
        /\ PollEnded(c)
        /\ hist[c].polled_value = Returned(Payload(TRUE, OneOutput(Str(1))))
        /\ ret[c] = Returned(Payload(TRUE, OneOutput(Arr(1))))

\* C9: when the list deployed_models() returned holds a record with the
\* wanted name and type, the guard issues no deploy request (and no further
\* query), whatever else the list holds.
C9_DeployedMeansNoDeploy ==
    \A c \in Callers :
        (op[c] = GUARD /\ hist[c].dep_match) =>
            /\ pc[c] = "done"
            /\ ret[c] = ReturnedNone
            /\ hist[c].sent = <<>>
            /\ hist[c].req = 1

C9_Witness ==
    \E c \in Callers :
        /\ op[c] = GUARD
        /\ hist[c].dep_match
        /\ hist[c].dep_other
        /\ pc[c] = "done"
        /\ hist[c].sent = <<>>

\* C10: when no deployed record matches but the mapping of
\* get_models_in_deployment() maps the wanted name to the wanted type, the
\* guard issues no deploy request.
C10_InDeploymentMeansNoDeploy ==
    \A c \in Callers :
        (op[c] = GUARD /\ ~hist[c].dep_match /\ hist[c].task_match) =>
            /\ pc[c] = "done"
            /\ ret[c] = ReturnedNone
            /\ hist[c].sent = <<>>
            /\ hist[c].req = 2

C10_Witness ==
    \E c \in Callers :
        /\ op[c] = GUARD
        /\ ~hist[c].dep_match
        /\ hist[c].task_match
        /\ pc[c] = "done"
        /\ hist[c].sent = <<>>

\* C11: a guard call whose spec names a base model, whose deployed-models
\* answer held no record of that name and type, and whose in-deployment
\* mapping did not map the name to the type, sends exactly one deploy
\* request, with the body {identifier: name, model_name: name, model_type: T},
\* T being "adapter" when the spec has an "adapter" member and "transformer"
\* otherwise; a record or a deployment of the name under the other type
\* changes nothing.
C11_MustDeploy(c) ==
    /\ op[c] = GUARD
    /\ args[c].default_skill_args.has_base_model
    /\ args[c].default_skill_args.base_model # ""
    /\ ~hist[c].dep_match
    /\ hist[c].asked_tasks
    /\ hist[c].tasks_status < 400
    /\ ~hist[c].task_match

C11_Body(c) ==
    [identifier |-> args[c].default_skill_args.base_model,
     model_name |-> args[c].default_skill_args.base_model,
     model_type |-> IF args[c].default_skill_args.has_adapter
                    THEN "adapter" ELSE "transformer"]

C11_DeploysOnceWithNameAndType ==
    \A c \in Callers :
        C11_MustDeploy(c) =>
            \/ pc[c] = "guard_deploy" /\ hist[c].sent = <<>>
            \/ pc[c] \in {"poll", "done"} /\ hist[c].sent = <<C11_Body(c)>>

C11_Witness ==
    \E c \in Callers :
        /\ C11_MustDeploy(c)
        /\ args[c].default_skill_args.has_adapter
        /\ hist[c].dep_other
        /\ pc[c] = "done"
        /\ Len(hist[c].sent) = 1

\* C12: a guard call whose spec has no base model name (the member is absent
\* or its value is empty) sends no HTTP request of any kind, fetches no
\* credential and returns normally.
C12_NoBaseModel(c) ==
    /\ op[c] = GUARD
    /\ \/ ~args[c].default_skill_args.has_base_model
       \/ args[c].default_skill_args.base_model = ""

C12_NoBaseModelNoRequest ==
    \A c \in Callers :
        C12_NoBaseModel(c) =>
            /\ pc[c] = "done"
            /\ ret[c] = ReturnedNone
            /\ hist[c].req = 0
            /\ hist[c].cred = 0
            /\ hist[c].sent = <<>>
            /\ ~hist[c].asked_tasks

C12_Witness ==
    \E c \in Callers :
        /\ C12_NoBaseModel(c)
        /\ args[c].default_skill_args.has_base_model
        /\ pc[c] = "done"
        /\ ret[c] = ReturnedNone

\* C13 as stated: whenever the answer to the running-tasks query has a
\* status outside 200..299, get_models_in_deployment raises, and a guard
\* call that asked the query ends with that error without a deploy request.
C13_RaisesOnNon2xx ==
    \A c \in Callers :
        (hist[c].asked_tasks /\ ~(200 <= hist[c].tasks_status /\ hist[c].tasks_status <= 299)) =>
            /\ ret[c] = Raised("HTTPError")
            /\ hist[c].sent = <<>>

\* C13 as the code has it: the query raises exactly when the status is a
\* 4xx or a 5xx; then no mapping is returned and a guard call ends with the
\* error after its two queries, without a deploy request. Any other status,
\* a 3xx included, does not raise.
C13_RaisesOn4xx5xx ==
    \A c \in Callers :
        hist[c].asked_tasks =>
            IF hist[c].tasks_status >= 400
            THEN /\ pc[c] = "done"
                 /\ ret[c] = Raised("HTTPError")
                 /\ hist[c].mapping = EmptyDict
                 /\ hist[c].sent = <<>>
                 /\ hist[c].req = IF op[c] = GUARD THEN 2 ELSE 1
            ELSE ret[c] # Raised("HTTPError")

C13_Witness ==
    \E c \in Callers :
        /\ op[c] = GUARD
        /\ hist[c].asked_tasks
        /\ hist[c].tasks_status = 404
        /\ ret[c] = Raised("HTTPError")
        /\ hist[c].sent = <<>>

\* C14: the mapping get_models_in_deployment returns maps n to t for every
\* descriptor of the body named tasks.tasks.deploy_task with MODEL_NAME n and
\* MODEL_TYPE t, and has no entry from any other descriptor; also when two
\* deployments in flight share a name and differ in type.
C14_MapsEveryDeployTask ==
    \A c \in Callers :
        (op[c] = "get_models_in_deployment" /\ ret[c] = ReturnedDict) =>
            LET tasks == Visit(running)
            IN  /\ \A i \in DOMAIN tasks :
                      tasks[i].name = DEPLOY_TASK =>
                          /\ tasks[i].MODEL_NAME \in DOMAIN hist[c].mapping
                          /\ hist[c].mapping[tasks[i].MODEL_NAME] = tasks[i].MODEL_TYPE
                /\ \A n \in DOMAIN hist[c].mapping :
                      \E i \in DOMAIN tasks :
                          tasks[i].name = DEPLOY_TASK /\ tasks[i].MODEL_NAME = n

\* C15: in every reachable state the credential fetches of a call equal its
\* HTTP requests, the task_result GETs of the poller included.
C15_OneCredentialPerRequest ==
    \A c \in Callers :
        /\ hist[c].cred = hist[c].req
        /\ hist[c].gets <= hist[c].req
        /\ Len(hist[c].sent) <= hist[c].req

C15_Witness ==
    \E c \in Callers :
        /\ op[c] = "deploy"
        /\ hist[c].gets = 3
        /\ hist[c].req = 4
        /\ hist[c].cred = 4

DECODE == "decode_model_api_response"
\* node v is or contains a leaf of type t
RECURSIVE HasLeaf(_, _)
HasLeaf(v, t) ==
    \/ v.t = t
    \/ v.t = "list" /\ \E i \in DOMAIN v.items : HasLeaf(v.items[i], t)

\* node v is or contains text that is no serialised array
RECURSIVE HasGarbled(_)
HasGarbled(v) ==
    \/ v.t = "str" /\ v.a = 0
    \/ v.t = "list" /\ \E i \in DOMAIN v.items : HasGarbled(v.items[i])

\* C16 as stated: after a call of decode_model_api_response the structure
\* the caller passed is as it was before the call, whatever the flag.
C16_ArgumentUnchanged ==
    \A c \in Callers :
        (op[c] = DECODE /\ pc[c] = "done") =>
            hist[c].arg_after = args[c].model_api_response

\* C16 as the code has it: a call that returns has put the decoded mapping
\* into the structure the caller passed and returns that structure, so the
\* caller's structure equals the returned value; only a call that raises
\* leaves the structure as it was.
C16_ArgumentHoldsDecoded ==
    \A c \in Callers :
        (op[c] = DECODE /\ pc[c] = "done") =>
            IF ret[c].kind = "return"
            THEN hist[c].arg_after = ret[c].val
            ELSE /\ ret[c].kind = "raise"
                 /\ hist[c].arg_after = args[c].model_api_response

C16_Witness ==
    \E c \in Callers :
        /\ op[c] = DECODE
        /\ pc[c] = "done"
        /\ args[c].model_api_response = Payload(TRUE, OneOutput(Lst(<<Str(1), Str(2)>>)))
        /\ ret[c].kind = "return"
        /\ hist[c].arg_after = Payload(TRUE, OneOutput(Lst(<<Arr(1), Arr(2)>>)))

RECURSIVE Mirrors(_, _)
Mirrors(in, out) ==
    IF in.t = "str" THEN out = [t |-> "ndarray", a |-> in.a, items |-> <<>>]
    ELSE /\ in.t = "list"
         /\ out.t = "list"
         /\ Len(out.items) = Len(in.items)
         /\ \A i \in DOMAIN in.items : Mirrors(in.items[i], out.items[i])

\* C18: with the flag true, the decoded value of every output name has the
\* nesting depth, the lengths and the element order of the input, each leaf
\* string being replaced by the array decoded from that string, and a bare
\* string by a single array.
C18_DecodingPreservesStructure ==
    \A c \in Callers :
        (/\ op[c] = DECODE
         /\ pc[c] = "done"
         /\ args[c].model_api_response.model_output_is_encoded
         /\ ret[c].kind = "return") =>
            LET outs == args[c].model_api_response.model_outputs
                dec == ret[c].val.model_outputs
            IN  /\ ret[c].val.model_output_is_encoded
                /\ DOMAIN dec = DOMAIN outs
                /\ \A key \in DOMAIN outs : Mirrors(outs[key], dec[key])

C18_Witness ==
    \E c \in Callers :
        /\ op[c] = DECODE
        /\ pc[c] = "done"
        /\ args[c].model_api_response =
               Payload(TRUE, OneOutput(Lst(<<Str(2), Lst(<<Str(1), Str(2)>>)>>)))
        /\ ret[c] = Returned(Payload(TRUE,
               OneOutput(Lst(<<Arr(2), Lst(<<Arr(1), Arr(2)>>)>>))))

\* the seconds slept after a non-200 answer in caller c's call
SleepOf(c) ==
    IF op[c] \in {"deploy", GUARD} THEN DeployPollInterval
    ELSE IF op[c] = "_wait_for_task" /\ args[c].poll_interval # NoneArg
    THEN args[c].poll_interval
    ELSE DefaultPollInterval

\* C19: every non-200 answer of a poll loop is followed by one sleep of
\* poll_interval and a 200 answer by none, so the seconds slept by a call
\* are (non-200 answers) * poll_interval, at most max_attempts *
\* poll_interval; the two values are the arguments of the call when given
\* (deploy polls with poll_interval 20) and 50 and 2 otherwise.
C19_SleepsOncePerNonOk ==
    \A c \in Callers :
        /\ hist[c].n_ok <= 1
        /\ hist[c].n_ok <= hist[c].gets
        /\ hist[c].gets <= Budget(c)
        /\ hist[c].slept = (hist[c].gets - hist[c].n_ok) * SleepOf(c)
        /\ hist[c].slept <= Budget(c) * SleepOf(c)
        /\ (pc[c] = "poll" /\ op[c] # "_wait_for_task") =>
               /\ wait[c].max_attempts = DefaultMaxAttempts
               /\ wait[c].poll_interval = SleepOf(c)

C19_Witness ==
    \E c \in Callers :
        /\ op[c] = "deploy"
        /\ pc[c] = "done"
        /\ hist[c].gets = 3
        /\ hist[c].n_ok = 1
        /\ hist[c].slept = 2 * DeployPollInterval

\* C20: with one caller, a guard call during which the server held the
\* wanted name and type at every moment, as a deployed model or as a
\* deployment in flight, issues no deploy request.
C20_HeldThroughoutMeansNoDeploy ==
    \A c \in Callers :
        (op[c] = GUARD /\ hist[c].held) => hist[c].sent = <<>>

==========================================================================
